---- MODULE Spec2Model ----
(***************************************************************************)
(* Tyre degradation estimator of the F1 dashboard:                         *)
(* calculate_advanced_deg(laps_df, results_df) in src/app.py, lines 93-142. *)
(*                                                                         *)
(* Numbers are fixed point.  Durations are integer milliseconds, fuel      *)
(* masses are integer tenths of a kilogram, and the regression slope is an *)
(* exact fraction of milliseconds per lap of tyre age.  A missing value    *)
(* (NaN / NaT / None) of a numeric column is NaN, of the TeamName column   *)
(* NaNTeam and of a string column NaNStr.  Team names are sequences of     *)
(* character codes so that the sort compares them as Python compares str.  *)
(***************************************************************************)
EXTENDS Integers, Sequences, FiniteSets, TLC

VARIABLES laps_df, results_df, laps_with_team, clean_laps, deg_data, deg_df, raised, pc

vars == <<laps_df, results_df, laps_with_team, clean_laps, deg_data, deg_df, raised, pc>>

(***************************************************************************)
(* Missing values.                                                         *)
(***************************************************************************)
NaN == 0 - 1

NaNTeam == <<>>

NaNStr == "NaN"

(***************************************************************************)
(* Bounds of the input tables.                                             *)
(***************************************************************************)
\* a stint has between MinSample and MinSample + MaxExtra laps
MaxExtra == 1

(***************************************************************************)
(* Model parameters, lines 96-99, and the sample threshold, line 125.      *)
(***************************************************************************)
\* 110.0 kg in tenths of a kilogram
STARTING_FUEL_KG == 1100

\* 1.6 kg per lap in tenths of a kilogram
FUEL_BURN_RATE_KG_PER_LAP == 16

\* 0.03 s per kg = 3 ms per tenth of a kilogram
FUEL_EFFECT_SEC_PER_KG == 3

\* 0.01 s per lap = 10 ms per lap
TRACK_EVO_EFFECT_SEC_PER_LAP == 10

\* len(subset) > 10
MinSample == 10

compound_order == <<"SOFT", "MEDIUM", "HARD", "INTERMEDIATE", "WET">>

(***************************************************************************)
(* Arithmetic helpers.                                                     *)
(***************************************************************************)
Abs(n) == IF n < 0 THEN 0 - n ELSE n

RECURSIVE Gcd(_, _)
Gcd(a, b) == IF b = 0 THEN a ELSE Gcd(b, a % b)

RECURSIVE SeqSum(_)
SeqSum(s) == IF s = <<>> THEN 0 ELSE Head(s) + SeqSum(Tail(s))

Range(s) == {s[i] : i \in DOMAIN s}

\* Series.unique(): the distinct values in order of first appearance (NaN included)
RECURSIVE Unique(_)
Unique(s) ==
    IF s = <<>> THEN <<>>
    ELSE LET u == Unique(SubSeq(s, 1, Len(s) - 1))
             x == s[Len(s)]
         IN IF x \in Range(u) THEN u ELSE Append(u, x)

Column(frame, col) == [i \in DOMAIN frame |-> frame[i][col]]

(***************************************************************************)
(* The input tables (the arguments of line 94, supplied by                 *)
(* load_session_data, lines 78-89).  A laps table is one or two stints; a  *)
(* stint is a run of consecutive laps of one driver on one compound.       *)
(***************************************************************************)
Alpine == <<65, 108, 112, 105, 110, 101>>

AstonMartin == <<65, 115, 116, 111, 110, 32, 77, 97, 114, 116, 105, 110>>

Drivers == {"GAS", "ALO", "STR"}

Compounds == {"SOFT", "MEDIUM", "HARD", "INTERMEDIATE", "WET", "UNKNOWN", "TEST_UNKNOWN"}

\* what, if anything, disqualifies the first lap of a stint
StintKinds == {"linear", "flat", "degenerate", "pitin", "pitout", "status2",
               "lap1", "nulltime", "nulltyre"}

StintLens == MinSample .. (MinSample + MaxExtra)

\* results in which STR has no entry (a driver without a results row)
ResultsWithoutSTR ==
    << [Abbreviation |-> "ALO", TeamName |-> AstonMartin],
       [Abbreviation |-> "GAS", TeamName |-> Alpine] >>

\* results in which STR is the team mate of ALO
ResultsWithSTR ==
    << [Abbreviation |-> "GAS", TeamName |-> Alpine],
       [Abbreviation |-> "STR", TeamName |-> AstonMartin],
       [Abbreviation |-> "ALO", TeamName |-> AstonMartin] >>

ResultsTables == {ResultsWithoutSTR, ResultsWithSTR}

\* Lap i of a stint; kind "used" is "flat" on tyres that are 3 laps old.
\* Except for the kinds "flat", "used" and "degenerate" the
\* lap time is chosen so that the corrected time is 90000 + 50 * age; a
\* disqualified first lap is 20 s slower.
StintLap(drv, comp, kind, first, i) ==
    LET flawed == i = 1 /\ kind \notin {"linear", "flat", "used", "degenerate"}
        n   == IF kind = "lap1" THEN i ELSE first + i - 1
        age == CASE kind = "degenerate" -> 5
                 [] kind = "used"       -> i + 3
                 [] OTHER               -> i
        t   == CASE kind \in {"flat", "used"} -> 95000
                 [] kind = "degenerate" -> 95000 + 7 * i
                 [] OTHER               -> 93310 + 50 * age - 58 * n
                                           + (IF flawed THEN 20000 ELSE 0)
    IN [Driver      |-> drv,
        LapNumber   |-> n,
        LapTime     |-> IF flawed /\ kind = "nulltime" THEN NaN ELSE t,
        PitInTime   |-> IF flawed /\ kind = "pitin" THEN 3600000 + t ELSE NaN,
        PitOutTime  |-> IF flawed /\ kind = "pitout" THEN 3600000 ELSE NaN,
        TrackStatus |-> IF flawed /\ kind = "status2" THEN "2" ELSE "1",
        Compound    |-> comp,
        TyreLife    |-> IF flawed /\ kind = "nulltyre" THEN NaN ELSE age]

Stint(drv, comp, kind, len, first) ==
    [i \in 1 .. len |-> StintLap(drv, comp, kind, first, i)]

\* the first lap number of a second stint: the laps of another driver are
\* driven at the same time, those of the same driver afterwards
SecondFirst(s, d) == IF s[1].Driver = d THEN Len(s) + 2 ELSE 2

\* two clean stints of more than MinSample laps, of any drivers on any
\* compounds: the order in which teams and compounds first appear varies
CleanTables ==
    {LET s == Stint(d1, c1, "linear", MinSample + 1, 2)
     IN s \o Stint(d2, c2, "linear", MinSample + 1, SecondFirst(s, d2)) :
        d1 \in Drivers, c1 \in Compounds, d2 \in Drivers, c2 \in Compounds}

\* a stint of any kind on the soft tyre, alone or followed by a second stint
FlawedStints ==
    {Stint(d, "SOFT", k, n, 2) : d \in Drivers, k \in StintKinds, n \in StintLens}

FlawedTables ==
    FlawedStints
    \cup {s \o Stint(d, c, "linear", n, SecondFirst(s, d)) :
            s \in FlawedStints, d \in Drivers, c \in {"SOFT", "MEDIUM"}, n \in StintLens}
    \cup {s \o Stint(d, "MEDIUM", "used", MinSample + 1, SecondFirst(s, d)) :
            s \in FlawedStints, d \in Drivers}

\* the pairs of tables the function is called with
Inputs ==
    ({<<>>} \X ResultsTables)
    \cup (CleanTables \X {ResultsWithoutSTR})
    \cup (FlawedTables \X ResultsTables)

(***************************************************************************)
(* Lines 101-104: pd.merge(laps_df, results_df[['Abbreviation',            *)
(* 'TeamName']], left_on='Driver', right_on='Abbreviation', how='left').   *)
(* Every lap is kept, in order, once per matching results row; a lap       *)
(* without a match gets missing Abbreviation and TeamName.                 *)
(***************************************************************************)
MergeRow(lap, results) ==
    LET matches == SelectSeq(results, LAMBDA r : r.Abbreviation = lap.Driver)
    IN IF matches = <<>>
       THEN << lap @@ [Abbreviation |-> NaNStr, TeamName |-> NaNTeam] >>
       ELSE [j \in DOMAIN matches |->
               lap @@ [Abbreviation |-> matches[j].Abbreviation,
                       TeamName |-> matches[j].TeamName]]

RECURSIVE MergeLeft(_, _)
MergeLeft(laps, results) ==
    IF laps = <<>> THEN <<>>
    ELSE MergeRow(Head(laps), results) \o MergeLeft(Tail(laps), results)

(***************************************************************************)
(* Lines 105-108: the clean-lap mask and dropna(subset=['LapTime']).       *)
(***************************************************************************)
\* the mask without its pit-in condition
IsClean_NoPitIn(row) ==
    /\ row.PitOutTime = NaN
    /\ row.TrackStatus = "1"
    /\ row.LapNumber # NaN /\ row.LapNumber > 1

IsClean(row) ==
    /\ row.PitInTime = NaN
    /\ row.PitOutTime = NaN
    /\ row.TrackStatus = "1"
    /\ row.LapNumber # NaN /\ row.LapNumber > 1

CleanLaps(frame) ==
    SelectSeq(SelectSeq(frame, IsClean), LAMBDA row : row.LapTime # NaN)

(***************************************************************************)
(* Lines 110-116: the fuel and track-evolution correction.                 *)
(***************************************************************************)
FuelLoad_KG(n) == STARTING_FUEL_KG - n * FUEL_BURN_RATE_KG_PER_LAP

FuelPenalty_sec(n) == FuelLoad_KG(n) * FUEL_EFFECT_SEC_PER_KG

\* the gain counted from lap 0 instead of lap 1
TrackEvo_Gain_sec_FromZero(n) == n * TRACK_EVO_EFFECT_SEC_PER_LAP

TrackEvo_Gain_sec(n) == (n - 1) * TRACK_EVO_EFFECT_SEC_PER_LAP

FullyCorrected_LapTimeSeconds(t, n) == t - FuelPenalty_sec(n) + TrackEvo_Gain_sec(n)

CorrectRow(row) ==
    row @@ [LapTimeSeconds    |-> row.LapTime,
            FuelLoad_KG       |-> FuelLoad_KG(row.LapNumber),
            FuelPenalty_sec   |-> FuelPenalty_sec(row.LapNumber),
            TrackEvo_Gain_sec |-> TrackEvo_Gain_sec(row.LapNumber),
            FullyCorrected_LapTimeSeconds |->
                FullyCorrected_LapTimeSeconds(row.LapTime, row.LapNumber)]

CorrectFrame(frame) == [i \in DOMAIN frame |-> CorrectRow(frame[i])]

(***************************************************************************)
(* Lines 120-134: the loop over teams and compounds.                       *)
(***************************************************************************)
\* plain equality, under which a missing team equals a missing team
TeamEq_Plain(a, b) == a = b

\* elementwise ==: a missing value equals nothing, not even itself
TeamEq(a, b) == a # NaNTeam /\ b # NaNTeam /\ a = b

CompoundEq(a, b) == a # NaNStr /\ b # NaNStr /\ a = b

\* line 122
Subset(frame, team, compound) ==
    SelectSeq(frame, LAMBDA row : TeamEq(row.TeamName, team)
                                  /\ CompoundEq(row.Compound, compound))

\* line 123 left out
DropNa_Nothing(frame) == frame

\* line 123
DropNa(frame) ==
    SelectSeq(frame, LAMBDA row : row.TyreLife # NaN
                                  /\ row.FullyCorrected_LapTimeSeconds # NaN)

\* the threshold read as "at least 10"
MeetsThreshold_AtLeast(n) == n >= MinSample

\* line 125
MeetsThreshold(n) == n > MinSample

\* a fraction in lowest terms with a positive denominator
Fraction(num, den) ==
    LET g == Gcd(Abs(num), Abs(den))
        s == IF den < 0 THEN 0 - 1 ELSE 1
    IN [num |-> s * (num \div g), den |-> s * (den \div g)]

\* a fit without intercept: the line is forced through the origin
Slope_ThroughOrigin(subset) ==
    LET X   == Column(subset, "TyreLife")
        y   == Column(subset, "FullyCorrected_LapTimeSeconds")
        Sxx == SeqSum([i \in DOMAIN X |-> X[i] * X[i]])
        Sxy == SeqSum([i \in DOMAIN X |-> X[i] * y[i]])
    IN IF Sxx = 0 THEN [num |-> 0, den |-> 1] ELSE Fraction(Sxy, Sxx)

\* lines 126-129: LinearRegression().fit(X, y).coef_[0], the least-squares
\* slope of y on the single column X with an intercept.  When X has no
\* variance the centred design matrix is zero and the minimum-norm
\* least-squares solution is a slope of zero.
Slope(subset) ==
    LET N   == Len(subset)
        X   == Column(subset, "TyreLife")
        y   == Column(subset, "FullyCorrected_LapTimeSeconds")
        Sx  == SeqSum(X)
        Sy  == SeqSum(y)
        Sxx == SeqSum([i \in DOMAIN X |-> X[i] * X[i]])
        Sxy == SeqSum([i \in DOMAIN X |-> X[i] * y[i]])
        den == N * Sxx - Sx * Sx
        num == N * Sxy - Sx * Sy
    IN IF den = 0 THEN [num |-> 0, den |-> 1] ELSE Fraction(num, den)

\* the body of the inner loop, lines 122-134: the rows it appends to deg_data
GroupRows(frame, team, compound) ==
    LET subset == DropNa(Subset(frame, team, compound))
    IN IF MeetsThreshold(Len(subset))
       THEN << [TeamName |-> team, Compound |-> compound,
                DegRate_sec_lap |-> Slope(subset), LapsAnalyzed |-> Len(subset)] >>
       ELSE <<>>

RECURSIVE ForCompounds(_, _, _)
ForCompounds(frame, team, compounds) ==
    IF compounds = <<>> THEN <<>>
    ELSE GroupRows(frame, team, Head(compounds))
         \o ForCompounds(frame, team, Tail(compounds))

RECURSIVE ForTeams(_, _, _)
ForTeams(frame, teams, compounds) ==
    IF teams = <<>> THEN <<>>
    ELSE ForCompounds(frame, Head(teams), compounds)
         \o ForTeams(frame, Tail(teams), compounds)

DegData(frame) ==
    ForTeams(frame, Unique(Column(frame, "TeamName")), Unique(Column(frame, "Compound")))

(***************************************************************************)
(* Lines 136-140: the output frame, the ordered categorical and the sort.  *)
(***************************************************************************)
\* position in compound_order, 0 when the value is not a category
CategoryCode(compound) ==
    IF \E i \in DOMAIN compound_order : compound_order[i] = compound
    THEN CHOOSE i \in DOMAIN compound_order : compound_order[i] = compound
    ELSE 0

\* line 139: a value that is not a category becomes missing
AsCategory(compound) == IF CategoryCode(compound) = 0 THEN NaNStr ELSE compound

\* str < str
RECURSIVE LexLess(_, _)
LexLess(a, b) ==
    IF b = <<>> THEN FALSE
    ELSE IF a = <<>> THEN TRUE
    ELSE IF Head(a) # Head(b) THEN Head(a) < Head(b)
    ELSE LexLess(Tail(a), Tail(b))

\* categorical order, missing values last (na_position='last')
CompoundLess(a, b) ==
    IF a = NaNStr THEN FALSE
    ELSE IF b = NaNStr THEN TRUE
    ELSE CategoryCode(a) < CategoryCode(b)

\* r sorts strictly before s under by=['TeamName', 'Compound']
RowLess(r, s) ==
    \/ LexLess(r.TeamName, s.TeamName)
    \/ r.TeamName = s.TeamName /\ CompoundLess(r.Compound, s.Compound)

\* stable insertion: after every row that does not sort after the new one
RECURSIVE InsertRow(_, _)
InsertRow(sorted, r) ==
    IF sorted = <<>> THEN <<r>>
    ELSE IF RowLess(r, sorted[Len(sorted)])
         THEN Append(InsertRow(SubSeq(sorted, 1, Len(sorted) - 1), r), sorted[Len(sorted)])
         ELSE Append(sorted, r)

RECURSIVE SortRows(_)
SortRows(rows) ==
    IF rows = <<>> THEN <<>>
    ELSE InsertRow(SortRows(SubSeq(rows, 1, Len(rows) - 1)), rows[Len(rows)])

\* the rows left in the order the loop produced them
sort_values_Unsorted(rows) == rows

\* line 140: sort_values(by=['TeamName', 'Compound']), a stable sort on two keys
sort_values(rows) == SortRows(rows)

\* line 139
astype(rows) == [i \in DOMAIN rows |-> [rows[i] EXCEPT !.Compound = AsCategory(@)]]

\* line 136-139: pd.DataFrame([]) has no columns, so deg_df['Compound'] raises KeyError
HasCompoundColumn(rows) == rows # <<>>

\* lines 94-142 as a function of the two tables: what is raised, what is returned
calculate_advanced_deg(laps_arg, results_arg) ==
    LET rows == DegData(CorrectFrame(CleanLaps(MergeLeft(laps_arg, results_arg))))
    IN IF HasCompoundColumn(rows)
       THEN [raised |-> "", deg_df |-> sort_values(astype(rows))]
       ELSE [raised |-> "KeyError", deg_df |-> <<>>]

(***************************************************************************)
(* The call, one action per statement group.                               *)
(***************************************************************************)
Init ==
    /\ \E input \in Inputs :
          /\ laps_df = input[1]
          /\ results_df = input[2]
    /\ laps_with_team = <<>>
    /\ clean_laps = <<>>
    /\ deg_data = <<>>
    /\ deg_df = <<>>
    /\ raised = ""
    /\ pc = "start"

\* lines 101-104
Merge ==
    /\ pc = "start"
    /\ laps_with_team' = MergeLeft(laps_df, results_df)
    /\ pc' = "merged"
    /\ UNCHANGED <<laps_df, results_df, clean_laps, deg_data, deg_df, raised>>

\* lines 105-108
Filter ==
    /\ pc = "merged"
    /\ clean_laps' = CleanLaps(laps_with_team)
    /\ pc' = "filtered"
    /\ UNCHANGED <<laps_df, results_df, laps_with_team, deg_data, deg_df, raised>>

\* the derived columns assigned to the caller's laps table as well
Correct_OnInput ==
    /\ pc = "filtered"
    /\ laps_df' = CorrectFrame(laps_df)
    /\ clean_laps' = CorrectFrame(clean_laps)
    /\ pc' = "corrected"
    /\ UNCHANGED <<results_df, laps_with_team, deg_data, deg_df, raised>>

\* lines 110-116
Correct ==
    /\ pc = "filtered"
    /\ clean_laps' = CorrectFrame(clean_laps)
    /\ pc' = "corrected"
    /\ UNCHANGED <<laps_df, results_df, laps_with_team, deg_data, deg_df, raised>>

\* lines 118-134
Regress ==
    /\ pc = "corrected"
    /\ deg_data' = DegData(clean_laps)
    /\ pc' = "regressed"
    /\ UNCHANGED <<laps_df, results_df, laps_with_team, clean_laps, deg_df, raised>>

\* lines 136-142
Finish ==
    /\ pc = "regressed"
    /\ IF HasCompoundColumn(deg_data)
       THEN deg_df' = sort_values(astype(deg_data)) /\ raised' = ""
       ELSE deg_df' = <<>> /\ raised' = "KeyError"
    /\ pc' = "done"
    /\ UNCHANGED <<laps_df, results_df, laps_with_team, clean_laps, deg_data>>

Next == Merge \/ Filter \/ Correct \/ Regress \/ Finish

Spec == Init /\ [][Next]_vars

(***************************************************************************)
(* Vocabulary of the properties, stated on the input tables alone.         *)
(***************************************************************************)
Abbreviations == {r.Abbreviation : r \in Range(results_df)}

Teams == {r.TeamName : r \in Range(results_df)}

\* the team of a driver, missing when the driver has no results entry
TeamOf(drv) ==
    IF drv \in Abbreviations
    THEN (CHOOSE r \in Range(results_df) : r.Abbreviation = drv).TeamName
    ELSE NaNTeam

\* the lap is disqualified by one of the five conditions of the clean-lap filter
Disqualified(lap) ==
    \/ lap.PitInTime # NaN
    \/ lap.PitOutTime # NaN
    \/ lap.TrackStatus # "1"
    \/ lap.LapNumber <= 1
    \/ lap.LapTime = NaN

\* positions in laps_df of the laps of a group that count towards its sample
Qualifying(team, compound) ==
    {i \in DOMAIN laps_df :
        /\ TeamOf(laps_df[i].Driver) = team
        /\ laps_df[i].Compound = compound
        /\ ~Disqualified(laps_df[i])
        /\ laps_df[i].TyreLife # NaN}

\* corrected lap time of an input lap in milliseconds
CorrectedMs(lap) == lap.LapTime - (3300 - 48 * lap.LapNumber) + 10 * (lap.LapNumber - 1)

RowsFor(rows, team, compound) ==
    {i \in DOMAIN rows : rows[i].TeamName = team /\ rows[i].Compound = compound}

Estimated == pc \in {"regressed", "done"}

Returned == pc = "done" /\ raised = ""

(***************************************************************************)
(* C1: an estimate is emitted for a (team, compound) group only when the   *)
(* group has strictly more than 10 clean laps with a tyre age and a        *)
(* corrected lap time: every emitted row has LapsAnalyzed >= 11, equal to  *)
(* the number of such laps of its group, and a group with 10 or fewer such *)
(* laps produces no row.                                                   *)
(***************************************************************************)
C1_MoreThanTen ==
    Estimated =>
        /\ \A i \in DOMAIN deg_data :
              /\ deg_data[i].LapsAnalyzed >= 11
              /\ deg_data[i].LapsAnalyzed =
                    Cardinality(Qualifying(deg_data[i].TeamName, deg_data[i].Compound))
        /\ \A team \in Teams, compound \in Compounds :
              Cardinality(Qualifying(team, compound)) <= 10
                  => RowsFor(deg_data, team, compound) = {}
        /\ pc = "done" =>
              /\ Len(deg_df) = (IF raised = "" THEN Len(deg_data) ELSE 0)
              /\ \A i \in DOMAIN deg_df : deg_df[i].LapsAnalyzed >= 11

\* one group of exactly 10 laps without a row next to a group of 11 with one
C1_Witness ==
    /\ Returned
    /\ \E team \in Teams, compound \in Compounds :
          /\ Cardinality(Qualifying(team, compound)) = 10
          /\ RowsFor(deg_data, team, compound) = {}
    /\ \E i \in DOMAIN deg_df : deg_df[i].LapsAnalyzed = 11

(***************************************************************************)
(* C2: when no (team, compound) group has more than 10 qualifying laps     *)
(* (also when the laps table is empty or every lap is filtered out) the    *)
(* call returns an empty result and raises no error.                       *)
(***************************************************************************)
C2_EmptyResultNotError ==
    (/\ pc = "done"
     /\ \A team \in Teams, compound \in Compounds :
           Cardinality(Qualifying(team, compound)) <= 10)
        => raised = "" /\ deg_df = <<>>

(***************************************************************************)
(* C3: a lap with a pit-in time, or a pit-out time, or a track status      *)
(* other than "1", or a lap number <= 1, or no lap time never contributes  *)
(* to the LapsAnalyzed count or the regression of an estimate: every count *)
(* is at most the number of laps of the group without such a flaw, and the *)
(* estimates are those of the laps table with the flawed laps removed.     *)
(***************************************************************************)
C3_FlawedLapsExcluded ==
    Estimated =>
        /\ \A i \in DOMAIN deg_data :
              deg_data[i].LapsAnalyzed
                 <= Cardinality({j \in DOMAIN laps_df :
                        /\ TeamOf(laps_df[j].Driver) = deg_data[i].TeamName
                        /\ laps_df[j].Compound = deg_data[i].Compound
                        /\ ~Disqualified(laps_df[j])})
        /\ deg_data = DegData(CorrectFrame(CleanLaps(MergeLeft(
                          SelectSeq(laps_df, LAMBDA lap : ~Disqualified(lap)), results_df))))

\* a lap with a pit-in time in a group that got an estimate
C3_Witness ==
    /\ Returned
    /\ \E j \in DOMAIN laps_df :
          /\ laps_df[j].PitInTime # NaN
          /\ RowsFor(deg_data, TeamOf(laps_df[j].Driver), laps_df[j].Compound) # {}

(***************************************************************************)
(* C4: the returned rows are sorted by team name ascending and, within a   *)
(* team, by compound in the order SOFT < MEDIUM < HARD < INTERMEDIATE <    *)
(* WET, whatever the order in which teams and compounds first appear in    *)
(* the laps table.                                                         *)
(***************************************************************************)
\* "Alpine" < "Aston Martin"
TeamPos(team) == IF team = Alpine THEN 1 ELSE 2

CanonicalPos ==
    [SOFT |-> 1, MEDIUM |-> 2, HARD |-> 3, INTERMEDIATE |-> 4, WET |-> 5]

C4_SortedByTeamThenCompound ==
    Returned =>
        \A i, j \in DOMAIN deg_df :
            i < j =>
                /\ TeamPos(deg_df[i].TeamName) <= TeamPos(deg_df[j].TeamName)
                /\ (/\ deg_df[i].TeamName = deg_df[j].TeamName
                    /\ deg_df[i].Compound \in DOMAIN CanonicalPos
                    /\ deg_df[j].Compound \in DOMAIN CanonicalPos)
                       => CanonicalPos[deg_df[i].Compound] < CanonicalPos[deg_df[j].Compound]

\* two rows that the loop produced in the other order
C4_Witness ==
    /\ Returned
    /\ Len(deg_df) = 2
    /\ deg_df[1] = deg_data[2]
    /\ deg_df[2] = deg_data[1]

(***************************************************************************)
(* C5: a lap whose driver has no results entry is silently excluded: it    *)
(* is in the join with a missing team, it is counted in no group, no row   *)
(* has a missing team, and it causes no error: the outcome of the call is  *)
(* that of the call on the laps of the matched drivers alone, which are    *)
(* still analysed.                                                         *)
(***************************************************************************)
MatchedLaps == SelectSeq(laps_df, LAMBDA lap : lap.Driver \in Abbreviations)

C5_UnmatchedDriverExcluded ==
    /\ pc # "start" =>
          /\ Len(laps_with_team) = Len(laps_df)
          /\ \A i \in DOMAIN laps_df :
                laps_df[i].Driver \notin Abbreviations
                    => laps_with_team[i].TeamName = NaNTeam
    /\ pc = "done" =>
          /\ \A i \in DOMAIN deg_df : deg_df[i].TeamName # NaNTeam
          /\ raised = calculate_advanced_deg(MatchedLaps, results_df).raised
          /\ Len(deg_df) = Len(calculate_advanced_deg(MatchedLaps, results_df).deg_df)
          /\ Range(deg_df) = Range(calculate_advanced_deg(MatchedLaps, results_df).deg_df)

\* more than 10 clean laps of a driver without a results entry, next to an
\* estimate for a matched driver
C5_Witness ==
    /\ Returned
    /\ Len(deg_df) = 1
    /\ Cardinality(Qualifying(NaNTeam, "SOFT")) > 10

(***************************************************************************)
(* C6 as stated: a group with more than 10 qualifying laps that all have   *)
(* the same tyre age produces no estimate row (and no error).              *)
(***************************************************************************)
SameTyreAge(team, compound) ==
    \A i, j \in Qualifying(team, compound) : laps_df[i].TyreLife = laps_df[j].TyreLife

C6_DegenerateGroupExcluded ==
    Estimated =>
        \A team \in Teams, compound \in Compounds :
            (Cardinality(Qualifying(team, compound)) > 10 /\ SameTyreAge(team, compound))
                => RowsFor(deg_data, team, compound) = {}

(***************************************************************************)
(* C6 amended: a group with more than 10 qualifying laps that all have the *)
(* same tyre age is not excluded: it produces one estimate row, with a     *)
(* degradation rate of 0 and LapsAnalyzed equal to its number of laps, and *)
(* raises no error; a clean lap without a tyre age is dropped from its     *)
(* group, which is estimated from its other laps, without raising.         *)
(***************************************************************************)
C6_DegenerateGroupEstimated ==
    pc = "done" =>
        \A team \in Teams, compound \in Compounds :
            LET n == Cardinality(Qualifying(team, compound))
                cleanNoAge == {i \in DOMAIN laps_df :
                                  /\ TeamOf(laps_df[i].Driver) = team
                                  /\ laps_df[i].Compound = compound
                                  /\ ~Disqualified(laps_df[i])
                                  /\ laps_df[i].TyreLife = NaN}
            IN /\ (n > 10 /\ SameTyreAge(team, compound)) =>
                      /\ raised = ""
                      /\ Cardinality(RowsFor(deg_data, team, compound)) = 1
                      /\ \A i \in RowsFor(deg_data, team, compound) :
                            /\ deg_data[i].LapsAnalyzed = n
                            /\ deg_data[i].DegRate_sec_lap.num = 0
               /\ cleanNoAge # {} =>
                      /\ n > 10 => raised = ""
                      /\ \A i \in RowsFor(deg_data, team, compound) :
                            deg_data[i].LapsAnalyzed = n
                      /\ Cardinality(RowsFor(deg_data, team, compound))
                            = (IF n > 10 THEN 1 ELSE 0)

\* an estimate for a group of more than 10 laps of one tyre age
C6_Witness ==
    /\ Returned
    /\ \E i \in DOMAIN deg_df :
          /\ SameTyreAge(deg_df[i].TeamName, deg_df[i].Compound)
          /\ deg_df[i].LapsAnalyzed > 10
          /\ deg_df[i].DegRate_sec_lap = [num |-> 0, den |-> 1]

(***************************************************************************)
(* C7: for a clean lap with lap number n and lap time t, fuel load =       *)
(* 110.0 - 1.6 n, fuel penalty = (110.0 - 1.6 n) * 0.03, track evolution   *)
(* gain = (n - 1) * 0.01 and corrected time = t - penalty + gain, in       *)
(* milliseconds t - (3300 - 48 n) + 10 (n - 1); the correction depends on  *)
(* n and t only.                                                           *)
(***************************************************************************)
C7_FuelAndTrackCorrection ==
    pc \in {"corrected", "regressed", "done"} =>
        /\ \A i \in DOMAIN clean_laps :
              LET row == clean_laps[i]
                  n == row.LapNumber
                  t == row.LapTime
              IN /\ row.LapTimeSeconds = t
                 /\ row.FuelLoad_KG = 1100 - 16 * n
                 /\ row.FuelPenalty_sec = 3300 - 48 * n
                 /\ row.TrackEvo_Gain_sec = 10 * (n - 1)
                 /\ row.FullyCorrected_LapTimeSeconds = t - (3300 - 48 * n) + 10 * (n - 1)
        /\ \A i, j \in DOMAIN clean_laps :
              (/\ clean_laps[i].LapNumber = clean_laps[j].LapNumber
               /\ clean_laps[i].LapTime = clean_laps[j].LapTime)
                  => clean_laps[i].FullyCorrected_LapTimeSeconds
                        = clean_laps[j].FullyCorrected_LapTimeSeconds

\* corrected laps of two teams on two compounds at two tyre ages with the same
\* lap number and lap time
C7_Witness ==
    /\ pc = "corrected"
    /\ \E i, j \in DOMAIN clean_laps :
          /\ clean_laps[i].LapNumber = clean_laps[j].LapNumber
          /\ clean_laps[i].LapTime = clean_laps[j].LapTime
          /\ clean_laps[i].TeamName # clean_laps[j].TeamName
          /\ clean_laps[i].Compound # clean_laps[j].Compound
          /\ clean_laps[i].TyreLife # clean_laps[j].TyreLife
          /\ clean_laps[i].FullyCorrected_LapTimeSeconds
                = clean_laps[i].LapTime - 3300 + 48 * clean_laps[i].LapNumber
                  + 10 * clean_laps[i].LapNumber - 10

(***************************************************************************)
(* C8: for a group of N > 10 clean laps whose corrected lap times lie on a *)
(* line a + b * age over at least two distinct tyre ages, the call returns *)
(* exactly one row for the group, with the least-squares slope b as the    *)
(* degradation rate and LapsAnalyzed = N; with corrected time 90 + 0.05 *  *)
(* age the rate is 0.05 s (50 ms) per lap.                                 *)
(***************************************************************************)
\* the laps at positions q lie on the line through the laps at positions i and j
OnLine(q, i, j) ==
    \A k \in q :
        (CorrectedMs(laps_df[k]) - CorrectedMs(laps_df[i]))
            * (laps_df[j].TyreLife - laps_df[i].TyreLife)
        = (CorrectedMs(laps_df[j]) - CorrectedMs(laps_df[i]))
            * (laps_df[k].TyreLife - laps_df[i].TyreLife)

C8_SlopeOfLinearGroup ==
    Estimated =>
        \A team \in Teams, compound \in Compounds :
            LET q == Qualifying(team, compound)
                \* a lap of the least and a lap of the greatest tyre age of the group
                i == CHOOSE x \in q : \A k \in q : laps_df[x].TyreLife <= laps_df[k].TyreLife
                j == CHOOSE x \in q : \A k \in q : laps_df[x].TyreLife >= laps_df[k].TyreLife
            IN (/\ Cardinality(q) > 10
                /\ laps_df[i].TyreLife < laps_df[j].TyreLife
                /\ OnLine(q, i, j))
                  => /\ Cardinality(RowsFor(deg_data, team, compound)) = 1
                     /\ \A r \in RowsFor(deg_data, team, compound) :
                           /\ deg_data[r].LapsAnalyzed = Cardinality(q)
                           /\ deg_data[r].DegRate_sec_lap.den > 0
                           /\ deg_data[r].DegRate_sec_lap.num
                                 * (laps_df[j].TyreLife - laps_df[i].TyreLife)
                              = deg_data[r].DegRate_sec_lap.den
                                 * (CorrectedMs(laps_df[j]) - CorrectedMs(laps_df[i]))
                           /\ (\A k \in q : CorrectedMs(laps_df[k])
                                               = 90000 + 50 * laps_df[k].TyreLife)
                                 => deg_data[r].DegRate_sec_lap = [num |-> 50, den |-> 1]
                     /\ pc = "done" =>
                           /\ raised = ""
                           /\ \E r \in DOMAIN deg_df, x \in RowsFor(deg_data, team, compound) :
                                 /\ deg_df[r].TeamName = team
                                 /\ deg_df[r].Compound = AsCategory(compound)
                                 /\ deg_df[r].LapsAnalyzed = Cardinality(q)
                                 /\ deg_df[r].DegRate_sec_lap = deg_data[x].DegRate_sec_lap

\* the one returned row of a soft-tyre group of more than 10 laps at tyre ages
\* 1, 2, ... on the line 90000 + 50 * age
C8_Witness ==
    /\ Returned
    /\ Len(deg_df) = 1
    /\ deg_df[1].Compound = "SOFT"
    /\ deg_df[1].LapsAnalyzed = Cardinality(Qualifying(deg_df[1].TeamName, "SOFT"))
    /\ deg_df[1].LapsAnalyzed > 10
    /\ deg_df[1].DegRate_sec_lap = [num |-> 50, den |-> 1]
    /\ \A k \in Qualifying(deg_df[1].TeamName, "SOFT") :
          CorrectedMs(laps_df[k]) = 90000 + 50 * laps_df[k].TyreLife
    /\ \E k \in Qualifying(deg_df[1].TeamName, "SOFT") : laps_df[k].TyreLife = 1
    /\ \E k \in Qualifying(deg_df[1].TeamName, "SOFT") : laps_df[k].TyreLife = 11

(***************************************************************************)
(* C9: the call leaves both input tables unchanged: at every step, on      *)
(* success and on failure, the laps table and the results table have the   *)
(* rows, columns and values they had before; the joined and the derived    *)
(* columns exist on internal copies only.                                  *)
(***************************************************************************)
C9_InputsUnchanged == [][laps_df' = laps_df /\ results_df' = results_df]_vars

\* the call has ended, the derived columns are on clean_laps and not on laps_df
C9_Witness ==
    /\ pc = "done"
    /\ clean_laps # <<>>
    /\ \A i \in DOMAIN clean_laps :
          {"TeamName", "LapTimeSeconds", "FuelLoad_KG", "FuelPenalty_sec",
           "TrackEvo_Gain_sec", "FullyCorrected_LapTimeSeconds"} \subseteq DOMAIN clean_laps[i]
    /\ \A i \in DOMAIN laps_df :
          DOMAIN laps_df[i] = {"Driver", "LapNumber", "LapTime", "PitInTime", "PitOutTime",
                               "TrackStatus", "Compound", "TyreLife"}

(***************************************************************************)
(* C10: the output has exactly one row for each (team, compound) pair with *)
(* more than 10 qualifying laps, no two rows carry the same (team,         *)
(* compound) key, for any compound strings in the laps table (after the    *)
(* conversion of the compound column to the ordered categorical), and with *)
(* one results row per driver a lap is counted at most once.               *)
(***************************************************************************)
C10_OneRowPerGroupUniqueKeys ==
    Returned =>
        /\ Len(deg_df) = Cardinality({g \in Teams \X Compounds :
                                         Cardinality(Qualifying(g[1], g[2])) > 10})
        /\ \A i, j \in DOMAIN deg_df :
              i # j => <<deg_df[i].TeamName, deg_df[i].Compound>>
                          # <<deg_df[j].TeamName, deg_df[j].Compound>>
        /\ SeqSum(Column(deg_df, "LapsAnalyzed")) <= Len(laps_df)

====
